---------------------------- MODULE Spec2Model ----------------------------
(***************************************************************************)
(* A model of pycubic's AuthClient (src/pycubic/auth.py) and of the        *)
(* resource clients that call AuthClient.request.                          *)
(*                                                                         *)
(* Tasks are asyncio tasks sharing one AuthClient.  A step of a task runs  *)
(* from one suspension point (an await on the HTTP session) to the next;   *)
(* everything between two awaits is atomic, as in the asyncio event loop.  *)
(* The server is the environment: it answers every call with any response *)
(* of the set the specification draws from (TokenResponses and the like).  *)
(***************************************************************************)
EXTENDS Integers, Sequences, FiniteSets, TLC

(***************************************************************************)
(* Bounds of the model.                                                    *)
(***************************************************************************)
\* time.time() ranges over 0..MaxNow
MaxNow == 2
\* the callers make at most MaxCalls public calls in all
MaxCalls == 3

\* the asyncio tasks sharing the client: every interleaving the model is
\* about is one of two calls
Tasks == { "t1", "t2" }

(***************************************************************************)
(* Python values.  An attribute that may be None is None (<<>>) or <<v>>.  *)
(***************************************************************************)
None == <<>>

Some(v) == <<v>>

\* Python truthiness of an optional string ('' and None are falsy)
TruthyStr(x) == x /= None /\ x[1] /= ""

\* Python truthiness of an optional number (0 and None are falsy)
TruthyNum(x) == x /= None /\ x[1] /= 0

\* str(x) inside an f-string
Str(x) == IF x = None THEN "None" ELSE x[1]

\* the safety margin added to time.time() in is_access_token_expired
SkewMargin == 60

(***************************************************************************)
(* The server's answers.  A response has a status, a JSON body (a record;  *)
(* dict.get reads a missing key as None) and the body as text.             *)
(***************************************************************************)
Response(status, json, text) == [status |-> status, json |-> json, text |-> text]

NoResponse == Response(0, [none |-> TRUE], "")

\* data.get(key)
Get(data, key) == IF key \in DOMAIN data THEN Some(data[key]) ELSE None

\* JSON bodies of a 200 answer to login/refresh: two token pairs, the second
\* already inside the margin when issued, and a body without the token keys
TokenBodies ==
  { [accessToken |-> "a1", refreshToken |-> "r1",
     accessTokenExpire |-> 61, refreshTokenExpire |-> 90],
    [accessToken |-> "a2", refreshToken |-> "r2",
     accessTokenExpire |-> 30, refreshTokenExpire |-> 91],
    [message |-> "ok"] }

ErrorResponses ==
  { Response(401, [error |-> "unauthorized"], "unauthorized"),
    Response(500, [error |-> "oops"], "oops") }

TokenResponses ==
  { Response(200, b, "tokens") : b \in TokenBodies } \cup ErrorResponses

ProbeResponses ==
  { Response(200, [valid |-> TRUE], "valid") } \cup ErrorResponses

ResourceResponses ==
  { Response(200, [value |-> v], "value") : v \in {1, 2} } \cup ErrorResponses

\* one answer of each kind, for the specifications of the resource clients: a
\* token pair and a refusal, a value and a failure
SomeTokenResponses ==
  { Response(200, [accessToken |-> "a1", refreshToken |-> "r1",
                   accessTokenExpire |-> 61, refreshTokenExpire |-> 90], "tokens"),
    Response(401, [error |-> "unauthorized"], "unauthorized") }

SomeProbeResponses ==
  { Response(200, [valid |-> TRUE], "valid"),
    Response(401, [error |-> "unauthorized"], "unauthorized") }

SomeResourceResponses ==
  { Response(200, [value |-> 1], "value"),
    Response(500, [error |-> "oops"], "oops") }

(***************************************************************************)
(* The caller's inputs.                                                    *)
(***************************************************************************)
BaseUrl == "https://link2.lk.nu"

\* a path is the sequence of its '/'-separated pieces: '/a/b' is <<"", "a", "b">>
RECURSIVE Lstrip(_)
\* endpoint.lstrip("/")
Lstrip(path) ==
  IF path /= <<>> /\ Head(path) = "" THEN Lstrip(Tail(path)) ELSE path

\* f'{self._base_url}/{path}'
Url(path) == <<BaseUrl>> \o path

Credentials == { [email |-> "user@example.com", password |-> "password"] }

\* headers are a set of <<name, value>> pairs with at most one pair per name
NoHeaders == {}

SetHeader(headers, name, value) ==
  { h \in headers : h[1] /= name } \cup { <<name, value>> }

\* (method, endpoint, headers=...) of a direct call of request()
RequestArgs ==
  { [method |-> "GET", endpoint |-> <<"", "some", "endpoint">>, headers |-> NoHeaders],
    [method |-> "POST", endpoint |-> <<"some", "endpoint">>,
     headers |-> { <<"Accept", "json">> }],
    [method |-> "GET", endpoint |-> <<"some", "endpoint">>,
     headers |-> { <<"Accept", "json">>, <<"Authorization", "Bearer own">> }] }

\* one of them, for the specification of all the calls
SomeRequestArgs ==
  { [method |-> "GET", endpoint |-> <<"", "some", "endpoint">>, headers |-> NoHeaders] }

SerialNumber == "SN1"

(***************************************************************************)
(* The outcome of a call: a returned value or a raised exception.          *)
(***************************************************************************)
NoResult ==
  [kind |-> "none", cls |-> "", status |-> None, message |-> "", value |-> None]

Return(v) ==
  [kind |-> "return", cls |-> "", status |-> None, message |-> "", value |-> Some(v)]

\* `return` of a function without a value
ReturnNone ==
  [kind |-> "return", cls |-> "", status |-> None, message |-> "", value |-> None]

Raise(cls, status, message) ==
  [kind |-> "raise", cls |-> cls, status |-> status, message |-> message,
   value |-> None]

\* aiohttp.ClientResponseError(status=response.status, message=prefix + text)
ClientResponseError(response, prefix) ==
  Raise("ClientResponseError", Some(response.status), prefix \o response.text)

LoginFailed(response) == ClientResponseError(response, "Login failed: ")

RequestFailed(response) ==
  ClientResponseError(response,
    "Failed to execute request " \o ToString(response.status) \o " - ")

\* mutant: a failed refresh is reported like a failed resource call
RefreshFailedAsRequest(response) == RequestFailed(response)

RefreshFailed(response) == ClientResponseError(response, "Token refresh failed: ")

NoRefreshToken ==
  Raise("ValueError", None, "No refresh token available. Please login first.")

\* what the aiohttp session raises when asked to send on a closed session
SessionClosed == Raise("RuntimeError", None, "Session is closed")

(***************************************************************************)
(* The state.                                                              *)
(***************************************************************************)
VARIABLES
  access_token,          \* AuthClient._access_token
  refresh_token,         \* AuthClient._refresh_token
  access_token_expire,   \* AuthClient._access_token_expire
  refresh_token_expire,  \* AuthClient._refresh_token_expire
  closed,                \* the aiohttp session has been closed
  now,                   \* time.time()
  user_id,               \* UserClient._user_id
  pc,                    \* per task: the await it is suspended at, or "idle"
  call,                  \* per task: the public call it runs (or ran last)
  sent,                  \* per task: the HTTP calls that call has sent, in order
  resp,                  \* per task: the response it received last
  result,                \* per task: the outcome of its last finished call
  checked,               \* per task: what the token check of its call saw
  clobbered,             \* per task: another task stored tokens while this one
                         \* was leaving its refresh
  calls,                 \* the number of public calls made so far
  caller                 \* the task that made the latest public call

tokens == <<access_token, refresh_token, access_token_expire, refresh_token_expire>>

vars == <<access_token, refresh_token, access_token_expire, refresh_token_expire,
          closed, now, user_id, pc, call, sent, resp, result, checked, clobbered, calls, caller>>

\* the arguments of a public call; request-like calls carry method, endpoint
\* and the caller's headers mapping
Call(op, method, endpoint, headers, json, check_server) ==
  [op |-> op, method |-> method, endpoint |-> endpoint,
   headers |-> headers, json |-> json, check_server |-> check_server, arg |-> None]

NoCall ==
  [op |-> "none", method |-> "", endpoint |-> <<>>,
   headers |-> NoHeaders, json |-> None, check_server |-> FALSE, arg |-> None]

\* a call of a resource client: its flag (bypass or state) is kept in arg, and
\* method and endpoint are those it passes to AuthClient.request
ClientCall(op, method, endpoint, flag) ==
  [op |-> op, method |-> method, endpoint |-> endpoint,
   headers |-> NoHeaders, json |-> None, check_server |-> FALSE, arg |-> Some(flag)]

\* what the token check of a call saw: the answer of is_access_token_expired
Check(is_expired) == IF is_expired THEN "expired" ELSE "usable"

NoCheck == "none"

\* one HTTP call handed to the aiohttp session
Http(method, url, headers, json) ==
  [method |-> method, url |-> url, headers |-> headers, json |-> json]

\* the calls that end in AuthClient.request
RequestOps ==
  { "request", "get_measurement", "get_configuration", "get_valve",
    "set_valve_state", "open_valve", "close_valve" }

\* the calls of UserClient, which end in get_user_id and AuthClient.request
UserOps == { "get_structure", "get_information" }

\* the endpoint get_user_id passes to request()
LookupEndpoint == <<"", "auth", "auth", "user">>

\* the request() a UserClient call is in is the one made by get_user_id
IsLookup(c) == c.op \in UserOps /\ c.endpoint = LookupEndpoint

InFlight(t) ==
  pc[t] \in { "login_wait", "refresh_wait", "probe_wait", "res_wait", "lookup_wait" }

Init ==
  /\ access_token = None
  /\ refresh_token = None
  /\ access_token_expire = None
  /\ refresh_token_expire = None
  /\ closed = FALSE
  /\ now = 0
  /\ user_id = None
  /\ pc = [t \in Tasks |-> "idle"]
  /\ call = [t \in Tasks |-> NoCall]
  /\ sent = [t \in Tasks |-> <<>>]
  /\ resp = [t \in Tasks |-> NoResponse]
  /\ result = [t \in Tasks |-> NoResult]
  /\ checked = [t \in Tasks |-> NoCheck]
  /\ clobbered = [t \in Tasks |-> FALSE]
  /\ calls = 0
  /\ caller = "none"

(***************************************************************************)
(* Pure parts of AuthClient.                                               *)
(***************************************************************************)
\* mutant: the margin is left out
IsAccessTokenExpiredNoMargin(expire, time) ==
  IF ~TruthyNum(expire) THEN TRUE ELSE time > expire[1]

\* mutant: the margin is added to the expiry instead of the time
IsAccessTokenExpiredLate(expire, time) ==
  IF ~TruthyNum(expire) THEN TRUE ELSE time > expire[1] + SkewMargin

\* is_access_token_expired, as a function of the stored expiry and the time
IsAccessTokenExpired(expire, time) ==
  IF ~TruthyNum(expire) THEN TRUE ELSE time + SkewMargin > expire[1]

\* f'Bearer {self._access_token}'
Bearer(token) == "Bearer " \o Str(token)

\* mutant: headers.setdefault('Authorization', ...), a caller's header wins
RequestHeadersKeepCallers(caller_headers, token) ==
  IF \E h \in caller_headers : h[1] = "Authorization"
  THEN caller_headers
  ELSE SetHeader(caller_headers, "Authorization", "Bearer " \o Str(token))

\* headers = dict(kwargs.get('headers', {})); headers['Authorization'] = ...
RequestHeaders(caller_headers, token) ==
  SetHeader(caller_headers, "Authorization", Bearer(token))

\* dict(...) copies: the caller's own mapping after request() has built its
\* headers from it
CallerHeadersAfter(caller_headers, token) == caller_headers

(***************************************************************************)
(* Steps of a task.  Each sets the task's own variables through one of     *)
(* Suspend, Finish and Send.                                               *)
(***************************************************************************)
\* task t suspends at `at` having sent the HTTP call h for the call c
Suspend(t, at, c, h, isnew) ==
  /\ pc' = [pc EXCEPT ![t] = at]
  /\ call' = [call EXCEPT ![t] = c]
  /\ sent' = [sent EXCEPT ![t] = IF isnew THEN <<h>> ELSE Append(sent[t], h)]
  /\ result' = [result EXCEPT ![t] = NoResult]

\* task t's call c ends with outcome r
Finish(t, c, r, isnew) ==
  /\ pc' = [pc EXCEPT ![t] = "idle"]
  /\ call' = [call EXCEPT ![t] = c]
  /\ sent' = [sent EXCEPT ![t] = IF isnew THEN <<>> ELSE sent[t]]
  /\ result' = [result EXCEPT ![t] = r]

\* session.post/get/request: sends h and suspends, unless the session is closed
Send(t, at, c, h, isnew) ==
  IF closed THEN Finish(t, c, SessionClosed, isnew) ELSE Suspend(t, at, c, h, isnew)

\* what a new call resets; chk is what its token check saw, if it makes one
Fresh(t, chk) ==
  /\ resp' = [resp EXCEPT ![t] = NoResponse]
  /\ checked' = [checked EXCEPT ![t] = chk]
  /\ clobbered' = [clobbered EXCEPT ![t] = FALSE]
  /\ calls' = calls + 1
  /\ caller' = t

\* task t may make a public call
MayCall(t) == pc[t] = "idle" /\ calls < MaxCalls

\* mutant: the access-token expiry is read from the wrong key
StoreTokensWrongKey(t, data) ==
  /\ access_token' = Get(data, "accessToken")
  /\ refresh_token' = Get(data, "refreshToken")
  /\ access_token_expire' = Get(data, "refreshTokenExpire")
  /\ refresh_token_expire' = Get(data, "refreshTokenExpire")
  /\ clobbered' = [u \in Tasks |->
                     IF u /= t /\ pc[u] = "refresh_exit" /\ resp[u].status = 200
                     THEN TRUE ELSE clobbered[u]]

\* mutant: only the access token and its expiry are stored in this step, the
\* refresh token and its expiry are left for later
StoreTokensTorn(t, data) ==
  /\ access_token' = Get(data, "accessToken")
  /\ refresh_token' = refresh_token
  /\ access_token_expire' = Get(data, "accessTokenExpire")
  /\ refresh_token_expire' = refresh_token_expire
  /\ clobbered' = [u \in Tasks |->
                     IF u /= t /\ pc[u] = "refresh_exit" /\ resp[u].status = 200
                     THEN TRUE ELSE clobbered[u]]

\* the four assignments that store a login/refresh body; a task that is
\* leaving its own refresh meanwhile has its tokens overwritten
StoreTokens(t, data) ==
  /\ access_token' = Get(data, "accessToken")
  /\ refresh_token' = Get(data, "refreshToken")
  /\ access_token_expire' = Get(data, "accessTokenExpire")
  /\ refresh_token_expire' = Get(data, "refreshTokenExpire")
  /\ clobbered' = [u \in Tasks |->
                     IF u /= t /\ pc[u] = "refresh_exit" /\ resp[u].status = 200
                     THEN TRUE ELSE clobbered[u]]

(***************************************************************************)
(* AuthClient.login                                                        *)
(***************************************************************************)
LoginCall(cred) ==
  Http("POST", Url(<<"auth", "auth", "login">>), NoHeaders, Some(cred))

CallLogin(t, cred) ==
  /\ MayCall(t)
  /\ Send(t, "login_wait", Call("login", "", <<>>, NoHeaders, Some(cred), FALSE),
          LoginCall(cred), TRUE)
  /\ Fresh(t, NoCheck)
  /\ UNCHANGED <<tokens, closed, now, user_id>>

LoginResponse(t, r) ==
  /\ pc[t] = "login_wait"
  /\ resp' = [resp EXCEPT ![t] = r]
  /\ IF r.status = 200
     THEN /\ StoreTokens(t, r.json)
          /\ Finish(t, call[t], Return(r.json), FALSE)
     ELSE /\ Finish(t, call[t], LoginFailed(r), FALSE)
          /\ UNCHANGED <<tokens, clobbered>>
  /\ UNCHANGED <<closed, now, user_id, checked, calls, caller>>

(***************************************************************************)
(* AuthClient.is_access_token_expired                                      *)
(***************************************************************************)
CallIsAccessTokenExpired(t) ==
  /\ MayCall(t)
  /\ LET e == IsAccessTokenExpired(access_token_expire, now)
     IN /\ Finish(t, Call("is_access_token_expired", "", <<>>, NoHeaders, None, FALSE),
                  Return(e), TRUE)
        /\ Fresh(t, Check(e))
  /\ UNCHANGED <<tokens, closed, now, user_id>>

(***************************************************************************)
(* AuthClient.refresh_token                                                *)
(***************************************************************************)
RefreshCall ==
  Http("POST", Url(<<"auth", "auth", "refresh">>),
       { <<"Authorization", Bearer(access_token)>> },
       Some([refreshToken |-> refresh_token[1]]))

\* mutant: the guard of line 101 is missing
RefreshBeginUnguarded(t, c, isnew) ==
  Send(t, "refresh_wait", c,
       Http("POST", Url(<<"auth", "auth", "refresh">>),
            { <<"Authorization", Bearer(access_token)>> },
            Some([refreshToken |-> Str(refresh_token)])),
       isnew)

\* mutant: a single-flight guard, the refresh is skipped while another task's
\* refresh is in flight
RefreshBeginSingleFlight(t, c, isnew) ==
  IF ~TruthyStr(refresh_token)
  THEN Finish(t, c, NoRefreshToken, isnew)
  ELSE IF \E u \in Tasks \ {t} : pc[u] = "refresh_wait"
       THEN Finish(t, c, ReturnNone, isnew)
       ELSE Send(t, "refresh_wait", c, RefreshCall, isnew)

\* lines 101-107: the guard, then the POST
RefreshBegin(t, c, isnew) ==
  IF ~TruthyStr(refresh_token)
  THEN Finish(t, c, NoRefreshToken, isnew)
  ELSE Send(t, "refresh_wait", c, RefreshCall, isnew)

CallRefreshToken(t) ==
  /\ MayCall(t)
  /\ RefreshBegin(t, Call("refresh_token", "", <<>>, NoHeaders, None, FALSE), TRUE)
  /\ Fresh(t, NoCheck)
  /\ UNCHANGED <<tokens, closed, now, user_id>>

\* lines 108-121: the response is read; the exception, if any, is raised when
\* the `async with` block has been left
RefreshResponse(t, r) ==
  /\ pc[t] = "refresh_wait"
  /\ pc' = [pc EXCEPT ![t] = "refresh_exit"]
  /\ resp' = [resp EXCEPT ![t] = r]
  /\ IF r.status = 200
     THEN StoreTokens(t, r.json)
     ELSE UNCHANGED <<tokens, clobbered>>
  /\ UNCHANGED <<closed, now, user_id, call, sent, result, checked, calls, caller>>

(***************************************************************************)
(* AuthClient.request, after _ensure_valid_access_token                    *)
(***************************************************************************)
ResourceCall(c) ==
  Http(c.method, Url(Lstrip(c.endpoint)), RequestHeaders(c.headers, access_token),
       None)

\* lines 135-141; the response is awaited for request()'s caller, which is
\* get_user_id when the call is the user-id lookup
SendResource(t, c, isnew) ==
  Send(t, IF IsLookup(c) THEN "lookup_wait" ELSE "res_wait",
       [c EXCEPT !.headers = CallerHeadersAfter(c.headers, access_token)],
       ResourceCall(c), isnew)

\* mutant: request() goes on to the resource call whatever the refresh answered
RefreshExitIgnoresFailure(t) ==
  /\ pc[t] = "refresh_exit"
  /\ IF call[t].op \in RequestOps \cup UserOps
     THEN SendResource(t, call[t], FALSE)
     ELSE IF resp[t].status /= 200
          THEN Finish(t, call[t], RefreshFailed(resp[t]), FALSE)
          ELSE Finish(t, call[t], ReturnNone, FALSE)
  /\ UNCHANGED <<tokens, closed, now, user_id, resp, checked, clobbered, calls, caller>>

\* the `async with` of refresh_token is left: the caller of refresh_token goes on
RefreshExit(t) ==
  /\ pc[t] = "refresh_exit"
  /\ IF resp[t].status /= 200
     THEN Finish(t, call[t], RefreshFailed(resp[t]), FALSE)
     ELSE IF call[t].op \in RequestOps \cup UserOps
          THEN SendResource(t, call[t], FALSE)
          ELSE Finish(t, call[t], ReturnNone, FALSE)
  /\ UNCHANGED <<tokens, closed, now, user_id, resp, checked, clobbered, calls, caller>>

\* mutant: the test of line 87 is inverted
RequestBeginInverted(t, c) ==
  LET e == IsAccessTokenExpired(access_token_expire, now)
  IN /\ IF ~e THEN RefreshBegin(t, c, TRUE) ELSE SendResource(t, c, TRUE)
     /\ Fresh(t, Check(e))
     /\ UNCHANGED <<tokens, closed, now, user_id>>

\* lines 134 (with 87-89) to 141
RequestBegin(t, c) ==
  LET e == IsAccessTokenExpired(access_token_expire, now)
  IN /\ IF e THEN RefreshBegin(t, c, TRUE) ELSE SendResource(t, c, TRUE)
     /\ Fresh(t, Check(e))
     /\ UNCHANGED <<tokens, closed, now, user_id>>

CallRequest(t, a) ==
  /\ MayCall(t)
  /\ RequestBegin(t, Call("request", a.method, a.endpoint, a.headers, None, FALSE))

\* mutant: a 401 answer makes the session forget its access token
ResourceResponseForgets(t, r) ==
  /\ pc[t] = "res_wait"
  /\ resp' = [resp EXCEPT ![t] = r]
  /\ Finish(t, call[t],
            IF r.status = 200 THEN Return(r.json) ELSE RequestFailed(r), FALSE)
  /\ access_token' = IF r.status = 401 THEN None ELSE access_token
  /\ UNCHANGED <<refresh_token, access_token_expire, refresh_token_expire,
                 closed, now, user_id, checked, clobbered, calls, caller>>

\* mutant: a 401 answer triggers a refresh and a second try
ResourceResponseRetries(t, r) ==
  /\ pc[t] = "res_wait"
  /\ resp' = [resp EXCEPT ![t] = r]
  /\ IF r.status = 200
     THEN Finish(t, call[t], Return(r.json), FALSE)
     ELSE IF r.status = 401 /\ Len(sent[t]) < 3
          THEN RefreshBegin(t, call[t], FALSE)
          ELSE Finish(t, call[t], RequestFailed(r), FALSE)
  /\ UNCHANGED <<tokens, closed, now, user_id, checked, clobbered, calls, caller>>

\* lines 141-151
ResourceResponse(t, r) ==
  /\ pc[t] = "res_wait"
  /\ resp' = [resp EXCEPT ![t] = r]
  /\ Finish(t, call[t],
            IF r.status = 200 THEN Return(r.json) ELSE RequestFailed(r), FALSE)
  /\ UNCHANGED <<tokens, closed, now, user_id, checked, clobbered, calls, caller>>

(***************************************************************************)
(* AuthClient.is_current_token_valid and _ensure_valid_access_token        *)
(***************************************************************************)
ProbeCall ==
  Http("GET", Url(<<"auth", "validate", "token">>),
       { <<"Authorization", Bearer(access_token)>> }, None)

CallIsCurrentTokenValid(t) ==
  /\ MayCall(t)
  /\ LET c == Call("is_current_token_valid", "", <<>>, NoHeaders, None, FALSE)
     IN IF ~TruthyStr(access_token)
        THEN Finish(t, c, Return(FALSE), TRUE)
        ELSE Send(t, "probe_wait", c, ProbeCall, TRUE)
  /\ Fresh(t, NoCheck)
  /\ UNCHANGED <<tokens, closed, now, user_id>>

\* mutant: a server error answered to the probe is raised
ProbeResponseRaises(t, r) ==
  /\ pc[t] = "probe_wait"
  /\ resp' = [resp EXCEPT ![t] = r]
  /\ IF r.status >= 500
     THEN Finish(t, call[t], RequestFailed(r), FALSE)
     ELSE IF call[t].op = "is_current_token_valid"
          THEN Finish(t, call[t], Return(r.status = 200), FALSE)
          ELSE /\ pc' = [pc EXCEPT ![t] = "probe_exit"]
               /\ UNCHANGED <<call, sent, result>>
  /\ UNCHANGED <<tokens, closed, now, user_id, checked, clobbered, calls, caller>>

\* line 82; inside _ensure_valid_access_token the task goes on at line 91
ProbeResponse(t, r) ==
  /\ pc[t] = "probe_wait"
  /\ resp' = [resp EXCEPT ![t] = r]
  /\ IF call[t].op = "is_current_token_valid"
     THEN Finish(t, call[t], Return(r.status = 200), FALSE)
     ELSE /\ pc' = [pc EXCEPT ![t] = "probe_exit"]
          /\ UNCHANGED <<call, sent, result>>
  /\ UNCHANGED <<tokens, closed, now, user_id, checked, clobbered, calls, caller>>

\* mutant: the test of line 91 is inverted, a valid token is refreshed
ProbeExitInverted(t) ==
  /\ pc[t] = "probe_exit"
  /\ IF resp[t].status /= 200
     THEN Finish(t, call[t], ReturnNone, FALSE)
     ELSE RefreshBegin(t, call[t], FALSE)
  /\ UNCHANGED <<tokens, closed, now, user_id, resp, checked, clobbered, calls, caller>>

\* lines 91-92, once is_current_token_valid has returned
ProbeExit(t) ==
  /\ pc[t] = "probe_exit"
  /\ IF resp[t].status = 200
     THEN Finish(t, call[t], ReturnNone, FALSE)
     ELSE RefreshBegin(t, call[t], FALSE)
  /\ UNCHANGED <<tokens, closed, now, user_id, resp, checked, clobbered, calls, caller>>

\* a direct call of _ensure_valid_access_token(check_server)
CallEnsureValidAccessToken(t, check_server) ==
  /\ MayCall(t)
  /\ LET e == IsAccessTokenExpired(access_token_expire, now)
         c == Call("_ensure_valid_access_token", "", <<>>, NoHeaders, None,
                   check_server)
     IN /\ IF e
           THEN RefreshBegin(t, c, TRUE)
           ELSE IF ~check_server
                THEN Finish(t, c, ReturnNone, TRUE)
                ELSE IF ~TruthyStr(access_token)
                     THEN RefreshBegin(t, c, TRUE)
                     ELSE Send(t, "probe_wait", c, ProbeCall, TRUE)
        /\ Fresh(t, Check(e))
  /\ UNCHANGED <<tokens, closed, now, user_id>>

(***************************************************************************)
(* The resource clients: CubicClient and CubicAccessClient                 *)
(***************************************************************************)
\* mutant: the flag is left out of the URL, which always ends in 0
BypassFlagIgnored(bypass) == "0"

\* f'{1 if bypass else 0}'
BypassFlag(bypass) == IF bypass THEN "1" ELSE "0"

MeasurementEndpoint(bypass) ==
  <<"service", "cubic", "secure", SerialNumber, "measurement", BypassFlag(bypass)>>

ConfigurationEndpoint(bypass) ==
  <<"service", "cubic", "secure", SerialNumber, "configuration", BypassFlag(bypass)>>

ValveEndpoint == <<"control", "cubic", "secure", SerialNumber, "valve">>

\* mutant: the two states are swapped
SetValveEndpointSwapped(state) ==
  <<"control", "cubic", "secure", SerialNumber, "valve",
    IF state THEN "close" ELSE "open">>

SetValveEndpoint(state) ==
  <<"control", "cubic", "secure", SerialNumber, "valve",
    IF state THEN "open" ELSE "close">>

CallGetMeasurement(t, bypass) ==
  /\ MayCall(t)
  /\ RequestBegin(t, ClientCall("get_measurement", "GET",
                                MeasurementEndpoint(bypass), bypass))

CallGetConfiguration(t, bypass) ==
  /\ MayCall(t)
  /\ RequestBegin(t, ClientCall("get_configuration", "GET",
                                ConfigurationEndpoint(bypass), bypass))

CallGetValve(t) ==
  /\ MayCall(t)
  /\ RequestBegin(t, Call("get_valve", "GET", ValveEndpoint, NoHeaders, None, FALSE))

\* set_valve_state(state), entered as op (directly, or from open_valve or
\* close_valve)
SetValveState(t, op, state) ==
  RequestBegin(t, ClientCall(op, "POST", SetValveEndpoint(state), state))

CallSetValveState(t, state) ==
  /\ MayCall(t)
  /\ SetValveState(t, "set_valve_state", state)

CallOpenValve(t) ==
  /\ MayCall(t)
  /\ SetValveState(t, "open_valve", TRUE)

CallCloseValve(t) ==
  /\ MayCall(t)
  /\ SetValveState(t, "close_valve", FALSE)

(***************************************************************************)
(* UserClient                                                              *)
(***************************************************************************)
\* the answers of GET auth/auth/user: two user ids, a body without the key,
\* a failure
LookupResponses ==
  { Response(200, [userId |-> u], "user") : u \in { "u1", "u2" } }
    \cup { Response(200, [message |-> "ok"], "ok"),
           Response(500, [error |-> "oops"], "oops") }

\* one answer of each kind, for the specification of all the calls
SomeLookupResponses ==
  { Response(200, [userId |-> "u1"], "user"),
    Response(500, [error |-> "oops"], "oops") }

\* the data_type get_structure and get_information pass to _get_user_data
DataType(op) == IF op = "get_structure" THEN "structure" ELSE "information"

\* f'service/users/user/{self._user_id}/{data_type}/{1 if bypass else 0}'
UserDataEndpoint(uid, op, bypass) ==
  <<"service", "users", "user", Str(uid), DataType(op), BypassFlag(bypass)>>

\* user['userId'] of a body without the key
NoUserId == Raise("KeyError", None, "userId")

\* mutant: the lookup is made by every call
UserDataBeginAlwaysLooksUp(t, op, bypass) ==
  RequestBegin(t, ClientCall(op, "GET", LookupEndpoint, bypass))

\* lines 21-26, up to the first await: with a stored user id the fetch, and
\* without one the lookup of get_user_id
UserDataBegin(t, op, bypass) ==
  IF ~TruthyStr(user_id)
  THEN RequestBegin(t, ClientCall(op, "GET", LookupEndpoint, bypass))
  ELSE RequestBegin(t, ClientCall(op, "GET", UserDataEndpoint(user_id, op, bypass),
                                  bypass))

CallGetStructure(t, bypass) ==
  /\ MayCall(t)
  /\ UserDataBegin(t, "get_structure", bypass)

CallGetInformation(t, bypass) ==
  /\ MayCall(t)
  /\ UserDataBegin(t, "get_information", bypass)

\* the lookup is answered: request() reads the status and the body inside its
\* `async with` block
LookupResponse(t, r) ==
  /\ pc[t] = "lookup_wait"
  /\ pc' = [pc EXCEPT ![t] = "lookup_exit"]
  /\ resp' = [resp EXCEPT ![t] = r]
  /\ UNCHANGED <<tokens, closed, now, user_id, call, sent, result, checked, clobbered,
                 calls, caller>>

\* mutant: what the lookup answered is stored as the user id before the answer
\* is looked at
LookupExitStoresFirst(t) ==
  /\ pc[t] = "lookup_exit"
  /\ user_id' = IF "userId" \in DOMAIN resp[t].json
                THEN Some(resp[t].json.userId) ELSE Some(resp[t].text)
  /\ IF resp[t].status /= 200
     THEN /\ Finish(t, call[t], RequestFailed(resp[t]), FALSE)
          /\ UNCHANGED <<checked, clobbered>>
     ELSE IF "userId" \notin DOMAIN resp[t].json
          THEN /\ Finish(t, call[t], NoUserId, FALSE)
               /\ UNCHANGED <<checked, clobbered>>
          ELSE LET uid == Some(resp[t].json.userId)
                   c == [call[t] EXCEPT
                           !.endpoint = UserDataEndpoint(uid, call[t].op,
                                                         call[t].arg[1])]
                   e == IsAccessTokenExpired(access_token_expire, now)
               IN /\ IF e THEN RefreshBegin(t, c, FALSE)
                          ELSE SendResource(t, c, FALSE)
                  /\ checked' = [checked EXCEPT ![t] = Check(e)]
                  /\ clobbered' = [clobbered EXCEPT ![t] = FALSE]
  /\ UNCHANGED <<tokens, closed, now, resp, calls, caller>>

\* the `async with` block of the lookup's request() is left: request() raises
\* or returns the body, get_user_id reads user['userId'], _get_user_data
\* stores it (line 22) and goes on to its own request() (lines 24-26)
LookupExit(t) ==
  /\ pc[t] = "lookup_exit"
  /\ IF resp[t].status /= 200
     THEN /\ Finish(t, call[t], RequestFailed(resp[t]), FALSE)
          /\ UNCHANGED <<user_id, checked, clobbered>>
     ELSE IF "userId" \notin DOMAIN resp[t].json
          THEN /\ Finish(t, call[t], NoUserId, FALSE)
               /\ UNCHANGED <<user_id, checked, clobbered>>
          ELSE LET uid == Some(resp[t].json.userId)
                   c == [call[t] EXCEPT
                           !.endpoint = UserDataEndpoint(uid, call[t].op,
                                                         call[t].arg[1])]
                   e == IsAccessTokenExpired(access_token_expire, now)
               IN /\ user_id' = uid
                  /\ IF e THEN RefreshBegin(t, c, FALSE)
                          ELSE SendResource(t, c, FALSE)
                  /\ checked' = [checked EXCEPT ![t] = Check(e)]
                  /\ clobbered' = [clobbered EXCEPT ![t] = FALSE]
  /\ UNCHANGED <<tokens, closed, now, resp, calls, caller>>

(***************************************************************************)
(* AuthClient.close, and the clock                                         *)
(***************************************************************************)
\* mutant: closing a closed session opens a new one
CallCloseReopens(t) ==
  /\ MayCall(t)
  /\ \A u \in Tasks : ~InFlight(u)
  /\ closed' = ~closed
  /\ Finish(t, Call("close", "", <<>>, NoHeaders, None, FALSE), ReturnNone, TRUE)
  /\ Fresh(t, NoCheck)
  /\ UNCHANGED <<tokens, now, user_id>>

\* close() is called once the calls in flight have been awaited
CallClose(t) ==
  /\ MayCall(t)
  /\ \A u \in Tasks : ~InFlight(u)
  /\ closed' = TRUE
  /\ Finish(t, Call("close", "", <<>>, NoHeaders, None, FALSE), ReturnNone, TRUE)
  /\ Fresh(t, NoCheck)
  /\ UNCHANGED <<tokens, now, user_id>>

Tick ==
  /\ now < MaxNow
  /\ now' = now + 1
  /\ UNCHANGED <<tokens, closed, user_id, pc, call, sent, resp, result, checked,
                 clobbered, calls, caller>>

\* the calls of AuthClient's public methods
Next ==
  \/ \E t \in Tasks, cred \in Credentials : CallLogin(t, cred)
  \/ \E t \in Tasks, r \in TokenResponses : LoginResponse(t, r)
  \/ \E t \in Tasks : CallIsAccessTokenExpired(t)
  \/ \E t \in Tasks : CallIsCurrentTokenValid(t)
  \/ \E t \in Tasks, r \in ProbeResponses : ProbeResponse(t, r)
  \/ \E t \in Tasks : CallRefreshToken(t)
  \/ \E t \in Tasks, r \in TokenResponses : RefreshResponse(t, r)
  \/ \E t \in Tasks : RefreshExit(t)
  \/ \E t \in Tasks, a \in RequestArgs : CallRequest(t, a)
  \/ \E t \in Tasks, r \in ResourceResponses : ResourceResponse(t, r)
  \/ \E t \in Tasks : CallClose(t)
  \/ Tick

Spec == Init /\ [][Next]_vars

\* what every use of a resource client takes: a login, the answers to the
\* refreshes and resource calls of request(), close() and the clock
SessionSteps ==
  \/ \E t \in Tasks, cred \in Credentials : CallLogin(t, cred)
  \/ \E t \in Tasks, r \in TokenResponses : LoginResponse(t, r)
  \/ \E t \in Tasks, r \in TokenResponses : RefreshResponse(t, r)
  \/ \E t \in Tasks : RefreshExit(t)
  \/ \E t \in Tasks, r \in ResourceResponses : ResourceResponse(t, r)
  \/ \E t \in Tasks : CallClose(t)
  \/ Tick

\* the calls of UserClient, on a session that logs in
NextUser ==
  \/ \E t \in Tasks, cred \in Credentials : CallLogin(t, cred)
  \/ \E t \in Tasks, r \in SomeTokenResponses : LoginResponse(t, r)
  \/ \E t \in Tasks, r \in SomeTokenResponses : RefreshResponse(t, r)
  \/ \E t \in Tasks : RefreshExit(t)
  \/ \E t \in Tasks, bypass \in BOOLEAN : CallGetStructure(t, bypass)
  \/ \E t \in Tasks, bypass \in BOOLEAN : CallGetInformation(t, bypass)
  \/ \E t \in Tasks, r \in LookupResponses : LookupResponse(t, r)
  \/ \E t \in Tasks : LookupExit(t)
  \/ \E t \in Tasks, r \in SomeResourceResponses : ResourceResponse(t, r)
  \/ \E t \in Tasks : CallClose(t)
  \/ Tick

SpecUser == Init /\ [][NextUser]_vars

\* the calls that fetch data with a bypass flag: those of UserClient and of
\* CubicClient
NextData ==
  \/ NextUser
  \/ \E t \in Tasks, bypass \in BOOLEAN : CallGetMeasurement(t, bypass)
  \/ \E t \in Tasks, bypass \in BOOLEAN : CallGetConfiguration(t, bypass)

SpecData == Init /\ [][NextData]_vars

\* direct calls of _ensure_valid_access_token, on a session that logs in
NextEnsure ==
  \/ \E t \in Tasks, cred \in Credentials : CallLogin(t, cred)
  \/ \E t \in Tasks, r \in TokenResponses : LoginResponse(t, r)
  \/ \E t \in Tasks, check_server \in BOOLEAN :
       CallEnsureValidAccessToken(t, check_server)
  \/ \E t \in Tasks, r \in ProbeResponses : ProbeResponse(t, r)
  \/ \E t \in Tasks : ProbeExit(t)
  \/ \E t \in Tasks, r \in TokenResponses : RefreshResponse(t, r)
  \/ \E t \in Tasks : RefreshExit(t)
  \/ \E t \in Tasks : CallClose(t)
  \/ Tick

SpecEnsure == Init /\ [][NextEnsure]_vars

\* the calls of CubicAccessClient, on a session that logs in
NextValve ==
  \/ SessionSteps
  \/ \E t \in Tasks : CallGetValve(t)
  \/ \E t \in Tasks, state \in BOOLEAN : CallSetValveState(t, state)
  \/ \E t \in Tasks : CallOpenValve(t)
  \/ \E t \in Tasks : CallCloseValve(t)

SpecValve == Init /\ [][NextValve]_vars

\* every call of AuthClient and of the three resource clients, and a direct
\* call of _ensure_valid_access_token
NextAll ==
  \/ \E t \in Tasks, cred \in Credentials : CallLogin(t, cred)
  \/ \E t \in Tasks, r \in SomeTokenResponses : LoginResponse(t, r)
  \/ \E t \in Tasks : CallIsAccessTokenExpired(t)
  \/ \E t \in Tasks : CallIsCurrentTokenValid(t)
  \/ \E t \in Tasks, check_server \in BOOLEAN :
       CallEnsureValidAccessToken(t, check_server)
  \/ \E t \in Tasks, r \in SomeProbeResponses : ProbeResponse(t, r)
  \/ \E t \in Tasks : ProbeExit(t)
  \/ \E t \in Tasks : CallRefreshToken(t)
  \/ \E t \in Tasks, r \in SomeTokenResponses : RefreshResponse(t, r)
  \/ \E t \in Tasks : RefreshExit(t)
  \/ \E t \in Tasks, a \in SomeRequestArgs : CallRequest(t, a)
  \/ \E t \in Tasks, bypass \in BOOLEAN : CallGetMeasurement(t, bypass)
  \/ \E t \in Tasks, bypass \in BOOLEAN : CallGetConfiguration(t, bypass)
  \/ \E t \in Tasks : CallGetValve(t)
  \/ \E t \in Tasks, state \in BOOLEAN : CallSetValveState(t, state)
  \/ \E t \in Tasks : CallOpenValve(t)
  \/ \E t \in Tasks : CallCloseValve(t)
  \/ \E t \in Tasks, bypass \in BOOLEAN : CallGetStructure(t, bypass)
  \/ \E t \in Tasks, bypass \in BOOLEAN : CallGetInformation(t, bypass)
  \/ \E t \in Tasks, r \in SomeLookupResponses : LookupResponse(t, r)
  \/ \E t \in Tasks : LookupExit(t)
  \/ \E t \in Tasks, r \in SomeResourceResponses : ResourceResponse(t, r)
  \/ \E t \in Tasks : CallClose(t)
  \/ Tick

SpecAll == Init /\ [][NextAll]_vars

(***************************************************************************)
(* Vocabulary of the properties.                                           *)
(***************************************************************************)
\* this step is task t making the public call op
Called(t, op) == calls' = calls + 1 /\ caller' = t /\ call'[t].op = op

RefreshUrl == <<"https://link2.lk.nu", "auth", "auth", "refresh">>

LoginUrl == <<"https://link2.lk.nu", "auth", "auth", "login">>

ProbeUrl == <<"https://link2.lk.nu", "auth", "validate", "token">>

IsRefresh(h) == h.method = "POST" /\ h.url = RefreshUrl

\* the Authorization values an HTTP call carries
Authorization(h) == { x[2] : x \in { y \in h.headers : y[1] = "Authorization" } }

\* 'Bearer ' + the accessToken of a JSON body
BearerOfBody(json) ==
  "Bearer " \o (IF "accessToken" \in DOMAIN json THEN json.accessToken ELSE "None")

\* 'Bearer ' + the access token stored now
BearerStored ==
  "Bearer " \o (IF access_token = None THEN "None" ELSE access_token[1])

\* the four token fields hold exactly what the JSON body gives
StoredFrom(json) ==
  /\ access_token' = IF "accessToken" \in DOMAIN json THEN <<json.accessToken>> ELSE <<>>
  /\ refresh_token' = IF "refreshToken" \in DOMAIN json THEN <<json.refreshToken>> ELSE <<>>
  /\ access_token_expire' =
       IF "accessTokenExpire" \in DOMAIN json THEN <<json.accessTokenExpire>> ELSE <<>>
  /\ refresh_token_expire' =
       IF "refreshTokenExpire" \in DOMAIN json THEN <<json.refreshTokenExpire>> ELSE <<>>

(***************************************************************************)
(* C1                                                                      *)
(***************************************************************************)
\* the order of the HTTP calls of one request(): nothing before the token
\* check; after a check that said "usable" no refresh and at most the resource
\* call; after a check that said "expired" one refresh first, and the resource
\* call only once that refresh has answered 200.  No call at all only when the
\* request failed before sending (no refresh token, or a closed session).
RequestOrder(t) ==
  LET s == sent[t]
  IN /\ checked[t] /= "none"
     /\ checked[t] = "usable" =>
          /\ Len(s) <= 1
          /\ \A i \in 1..Len(s) : ~IsRefresh(s[i])
          /\ s = <<>> => result[t] = SessionClosed
     /\ checked[t] = "expired" =>
          /\ Len(s) <= 2
          /\ s /= <<>> => IsRefresh(s[1])
          /\ s = <<>> => result[t] \in { NoRefreshToken, SessionClosed }
          /\ Len(s) = 1 /\ pc[t] = "idle" =>
               \/ resp[t].status /= 200
               \/ result[t] = SessionClosed
          /\ Len(s) = 2 => ~IsRefresh(s[2]) /\ pc[t] \in { "res_wait", "idle" }
          /\ Len(s) = 2 /\ pc[t] = "res_wait" => resp[t].status = 200

\* C1 as stated: (the order of the calls, and) the resource call sent after a
\* refresh carries the access token which that refresh returned
C1_ResourceCarriesRefreshedToken ==
  \A t \in Tasks :
    call[t].op \in RequestOps =>
      /\ RequestOrder(t)
      /\ Len(sent[t]) = 2 /\ pc[t] = "res_wait" =>
           Authorization(sent[t][2]) = { BearerOfBody(resp[t].json) }

\* C1 amended: on an open session that holds a refresh token, request() sends
\* nothing before the token check; if the check says expired it issues exactly
\* one refresh, which answers before the resource call is sent; if it says
\* usable it issues no refresh; and the resource call sent after a refresh
\* carries the access token stored when it is sent, which is the one that
\* refresh returned unless another task's login or refresh response was stored
\* while this task was leaving its refresh
C1_RefreshBeforeResource ==
  \A t \in Tasks :
    call[t].op \in RequestOps =>
      /\ RequestOrder(t)
      /\ Len(sent[t]) = 2 /\ pc[t] = "res_wait" /\ ~clobbered[t] =>
           Authorization(sent[t][2]) = { BearerOfBody(resp[t].json) }

\* a request() has refreshed, undisturbed, and has sent its resource call
C1_Witness ==
  \E t \in Tasks :
    /\ call[t].op = "request" /\ checked[t] = "expired"
    /\ Len(sent[t]) = 2 /\ pc[t] = "res_wait" /\ ~clobbered[t]
    /\ IsRefresh(sent[t][1])
    /\ "accessToken" \in DOMAIN resp[t].json

(***************************************************************************)
(* C2                                                                      *)
(***************************************************************************)
\* C2: is_access_token_expired answers true when no expiry is stored or the
\* stored expiry is below now + 60, false when it is above now + 60, and
\* neither changes the session nor sends an HTTP call
C2_ExpiredIsPure ==
  [][\A t \in Tasks :
       Called(t, "is_access_token_expired") =>
         /\ pc'[t] = "idle" /\ result'[t].kind = "return"
         /\ access_token_expire = None => result'[t].value = <<TRUE>>
         /\ access_token_expire /= None /\ access_token_expire[1] < now + 60 =>
              result'[t].value = <<TRUE>>
         /\ access_token_expire /= None /\ access_token_expire[1] > now + 60 =>
              result'[t].value = <<FALSE>>
         /\ tokens' = tokens /\ closed' = closed /\ now' = now
         /\ sent'[t] = <<>>
         /\ \A u \in Tasks \ {t} : sent'[u] = sent[u] /\ pc'[u] = pc[u]]_vars

\* is_access_token_expired has answered false for a stored expiry
C2_Witness ==
  \E t \in Tasks :
    /\ call[t].op = "is_access_token_expired"
    /\ result[t].value = <<FALSE>>
    /\ access_token_expire /= None

(***************************************************************************)
(* C3                                                                      *)
(***************************************************************************)
\* this step is a token check by t (of request() or is_access_token_expired())
\* that found the stored access token usable
FoundUsable(t) ==
  /\ \/ Called(t, "request")
     \/ Called(t, "is_access_token_expired")
  /\ checked'[t] = "usable"

\* C3 as stated: whenever the token is found usable, now + 60 is strictly
\* before the stored expiry
C3_UsableStrictlyBeforeExpiry ==
  [][\A t \in Tasks :
       FoundUsable(t) =>
         access_token_expire /= None /\ now + 60 < access_token_expire[1]]_vars

\* C3 amended: whenever the token is found usable (so that request() sends the
\* resource call without refreshing), now + 60 is at or before the stored
\* expiry; a token whose expiry equals now + 60 is still treated as usable
C3_UsableNotAfterExpiry ==
  [][\A t \in Tasks :
       FoundUsable(t) =>
         /\ access_token_expire /= None /\ now + 60 <= access_token_expire[1]
         /\ Called(t, "request") /\ ~closed =>
              /\ pc'[t] = "res_wait"
              /\ Len(sent'[t]) = 1 /\ ~IsRefresh(sent'[t][1])]_vars

\* a request() has found the token usable and sent the resource call at once
C3_Witness ==
  \E t \in Tasks :
    /\ call[t].op = "request" /\ checked[t] = "usable"
    /\ pc[t] = "res_wait" /\ Len(sent[t]) = 1

(***************************************************************************)
(* C4                                                                      *)
(***************************************************************************)
\* C4: refresh_token() on a session without a refresh token raises the
\* ValueError 'No refresh token available. Please login first.', sends no HTTP
\* call and leaves the four token fields as they are
C4_RefreshNeedsLogin ==
  [][\A t \in Tasks :
       Called(t, "refresh_token") /\ refresh_token = None =>
         /\ pc'[t] = "idle"
         /\ result'[t].kind = "raise" /\ result'[t].cls = "ValueError"
         /\ result'[t].message = "No refresh token available. Please login first."
         /\ sent'[t] = <<>>
         /\ \A u \in Tasks \ {t} : sent'[u] = sent[u]
         /\ tokens' = tokens]_vars

\* refresh_token() has been refused for lack of a refresh token
C4_Witness ==
  \E t \in Tasks :
    /\ call[t].op = "refresh_token" /\ pc[t] = "idle"
    /\ result[t].cls = "ValueError" /\ sent[t] = <<>>
    /\ refresh_token = None

(***************************************************************************)
(* C5                                                                      *)
(***************************************************************************)
\* C5: login on an open session sends exactly one POST auth/auth/login with
\* the credentials; a 200 answer sets the four token fields to the values of
\* its body; any other answer raises a ClientResponseError with the answer's
\* status and, in its message, the answer's body text
C5_Login ==
  /\ [][\A t \in Tasks :
          /\ Called(t, "login") /\ ~closed =>
               /\ pc'[t] = "login_wait"
               /\ sent'[t] = << [method |-> "POST", url |-> LoginUrl,
                                 headers |-> {}, json |-> call'[t].json] >>
          /\ pc[t] = "login_wait" /\ pc'[t] /= "login_wait" =>
               /\ pc'[t] = "idle" /\ sent'[t] = sent[t]
               /\ resp'[t].status = 200 =>
                    /\ StoredFrom(resp'[t].json)
                    /\ result'[t].kind = "return"
                    /\ result'[t].value = <<resp'[t].json>>
               /\ resp'[t].status /= 200 =>
                    /\ result'[t].kind = "raise"
                    /\ result'[t].cls = "ClientResponseError"
                    /\ result'[t].status = <<resp'[t].status>>
                    /\ result'[t].message = "Login failed: " \o resp'[t].text]_vars
  /\ [](\A t \in Tasks : call[t].op = "login" => Len(sent[t]) <= 1)

\* a login has been answered 200 and its body is what the session stores
C5_Witness ==
  \E t \in Tasks :
    /\ call[t].op = "login" /\ pc[t] = "idle" /\ Len(sent[t]) = 1
    /\ resp[t].status = 200 /\ result[t].kind = "return"
    /\ access_token = <<"a1">> /\ refresh_token = <<"r1">>
    /\ access_token_expire = <<61>> /\ refresh_token_expire = <<90>>

(***************************************************************************)
(* C6                                                                      *)
(***************************************************************************)
\* C6: a step changes one of the four token fields only if it is a login or a
\* refresh_token receiving a 200 answer; every other step (a failed login or
\* refresh, is_access_token_expired, is_current_token_valid, a request()
\* sending or finishing its resource call, close(), the clock) leaves them
C6_OnlyLoginAndRefreshStore ==
  [][tokens' /= tokens =>
       \E t \in Tasks :
         /\ pc[t] \in { "login_wait", "refresh_wait" }
         /\ pc'[t] /= pc[t]
         /\ resp'[t].status = 200]_vars

\* a login has failed and a resource call has failed while the tokens of an
\* earlier login are still stored
C6_Witness ==
  /\ access_token /= None /\ refresh_token /= None
  /\ \E t \in Tasks :
       /\ call[t].op = "login" /\ pc[t] = "idle" /\ result[t].kind = "raise"
  /\ \E t \in Tasks :
       /\ call[t].op = "request" /\ pc[t] = "idle" /\ checked[t] = "usable"
       /\ result[t].kind = "raise" /\ Len(sent[t]) = 1

(***************************************************************************)
(* C7                                                                      *)
(***************************************************************************)
\* C7: nothing serialises the refresh.  A request() that finds the token
\* expired on an open session holding a refresh token issues its own POST
\* auth/auth/refresh with the tokens stored at that moment, whatever the other
\* tasks are doing; and every refresh answered 200 overwrites the four token
\* fields with its body, so that the answer processed last is the one stored
C7_UnguardedRefresh ==
  [][\A t \in Tasks :
       /\ Called(t, "request") /\ checked'[t] = "expired"
          /\ refresh_token /= None /\ ~closed =>
            /\ pc'[t] = "refresh_wait"
            /\ sent'[t] = << [method |-> "POST", url |-> RefreshUrl,
                              headers |-> { <<"Authorization", BearerStored>> },
                              json |-> << [refreshToken |-> refresh_token[1]] >>] >>
       /\ pc[t] = "refresh_wait" /\ pc'[t] /= "refresh_wait"
          /\ resp'[t].status = 200 =>
            StoredFrom(resp'[t].json)]_vars

\* two request() calls have both found the token expired, each has sent its
\* own refresh with the same old tokens, both refreshes have been answered 200
\* with different bodies, and the session stores the body processed last
C7_Witness ==
  \E t \in Tasks, u \in Tasks :
    /\ t /= u
    /\ call[t].op = "request" /\ call[u].op = "request"
    /\ checked[t] = "expired" /\ checked[u] = "expired"
    /\ pc[t] = "refresh_exit" /\ pc[u] = "refresh_exit"
    /\ Len(sent[t]) = 1 /\ IsRefresh(sent[t][1])
    /\ sent[u] = sent[t]
    /\ resp[t].status = 200 /\ resp[u].status = 200
    /\ resp[t].json = [accessToken |-> "a1", refreshToken |-> "r1",
                       accessTokenExpire |-> 61, refreshTokenExpire |-> 90]
    /\ resp[u].json = [accessToken |-> "a2", refreshToken |-> "r2",
                       accessTokenExpire |-> 30, refreshTokenExpire |-> 91]
    /\ clobbered[t] /\ ~clobbered[u]
    /\ access_token = <<"a2">> /\ refresh_token = <<"r2">>
    /\ access_token_expire = <<30>> /\ refresh_token_expire = <<91>>

(***************************************************************************)
(* C8                                                                      *)
(***************************************************************************)
\* this step is task t handing an HTTP call to the session
Sends(t) ==
  /\ pc'[t] \in { "login_wait", "refresh_wait", "probe_wait", "res_wait" }
  /\ pc'[t] /= pc[t]

\* the headers the caller of request() passed
PassedHeaders(c) ==
  (CHOOSE a \in RequestArgs : a.method = c.method /\ a.endpoint = c.endpoint).headers

WithoutAuthorization(headers) == { x \in headers : x[1] /= "Authorization" }

\* C8: every probe, refresh and resource call carries exactly one Authorization
\* header, 'Bearer ' + the access token stored when the call is sent; a
\* request() sends the caller's other headers unchanged, replaces a caller's
\* Authorization header, and leaves the caller's mapping as it was passed
C8_BearerOfStoredToken ==
  [][\A t \in Tasks :
       Sends(t) =>
         LET h == sent'[t][Len(sent'[t])]
         IN /\ h.url /= LoginUrl =>
                 /\ Authorization(h) = { BearerStored }
                 /\ access_token' = access_token
            /\ call'[t].op = "request" =>
                 call'[t].headers = PassedHeaders(call'[t])
            /\ call'[t].op = "request" /\ pc'[t] = "res_wait" =>
                 WithoutAuthorization(h.headers)
                   = WithoutAuthorization(PassedHeaders(call'[t]))]_vars

\* a request() called with its own Authorization and Accept headers has
\* refreshed and sent the resource call with the refreshed token
C8_Witness ==
  \E t \in Tasks :
    /\ call[t].op = "request" /\ pc[t] = "res_wait" /\ Len(sent[t]) = 2
    /\ <<"Authorization", "Bearer own">> \in call[t].headers
    /\ sent[t][2].headers = { <<"Accept", "json">>, <<"Authorization", "Bearer a1">> }
    /\ access_token = <<"a1">>

(***************************************************************************)
(* C9                                                                      *)
(***************************************************************************)
\* C9: a request() sends at most one resource call and nothing after it; once
\* that call is answered the request() is over: with status 200 it returns the
\* parsed JSON body, with any other status it raises a ClientResponseError with
\* that status and, in the message, the body text
C9_NoRetry ==
  \A t \in Tasks :
    call[t].op \in RequestOps =>
      LET s == sent[t]
      IN /\ \A i \in 1..Len(s) : ~IsRefresh(s[i]) => i = Len(s)
         /\ Cardinality({ i \in 1..Len(s) : IsRefresh(s[i]) }) <= 1
         /\ pc[t] = "idle" /\ s /= <<>> /\ ~IsRefresh(s[Len(s)]) =>
              IF resp[t].status = 200
              THEN result[t] = [kind |-> "return", cls |-> "", status |-> <<>>,
                                message |-> "", value |-> <<resp[t].json>>]
              ELSE result[t] =
                     [kind |-> "raise", cls |-> "ClientResponseError",
                      status |-> <<resp[t].status>>,
                      message |-> "Failed to execute request "
                                    \o ToString(resp[t].status) \o " - "
                                    \o resp[t].text,
                      value |-> <<>>]

\* the resource call of a request() has been answered 401 and the request()
\* is over, having sent that one call
C9_Witness ==
  \E t \in Tasks :
    /\ call[t].op = "request" /\ pc[t] = "idle" /\ Len(sent[t]) = 1
    /\ ~IsRefresh(sent[t][1])
    /\ resp[t].status = 401 /\ result[t].status = <<401>>

(***************************************************************************)
(* C10                                                                     *)
(***************************************************************************)
HttpErrorOf(t, prefix) ==
  [kind |-> "raise", cls |-> "ClientResponseError", status |-> <<resp[t].status>>,
   message |-> prefix \o resp[t].text, value |-> <<>>]

\* C10 as stated: every error raised by login, refresh_token and request
\* carries an HTTP status
C10_EveryErrorCarriesStatus ==
  \A t \in Tasks :
    /\ call[t].op \in { "login", "refresh_token", "request" }
    /\ result[t].kind = "raise"
    => result[t].status /= None

\* C10 amended: a non-200 answer to login or to a refresh (also one made
\* inside request()) raises a ClientResponseError whose message starts with
\* 'Login failed: ' or 'Token refresh failed: '; a non-200 answer to the
\* resource call raises a ClientResponseError whose message starts with
\* 'Failed to execute request '; each of these carries the answer's status and
\* body text.  A refresh without a stored refresh token raises a ValueError,
\* which carries a message only: no HTTP call was made, so there is no status
\* and no body.  (On a closed session the HTTP session raises RuntimeError.)
C10_ErrorKinds ==
  \A t \in Tasks :
    /\ pc[t] = "idle"
    /\ call[t].op \in { "login", "refresh_token", "request" }
    => LET s == sent[t]
           answered == s /= <<>> /\ resp[t].status /= 0
       IN /\ answered /\ resp[t].status /= 200 =>
               result[t] =
                 IF s[Len(s)].url = LoginUrl THEN HttpErrorOf(t, "Login failed: ")
                 ELSE IF IsRefresh(s[Len(s)])
                      THEN HttpErrorOf(t, "Token refresh failed: ")
                      ELSE HttpErrorOf(t, "Failed to execute request "
                                            \o ToString(resp[t].status) \o " - ")
          /\ result[t].kind = "raise" =>
               \/ answered /\ resp[t].status /= 200
               \/ /\ result[t] = [kind |-> "raise", cls |-> "ValueError",
                                  status |-> <<>>,
                                  message |->
                                    "No refresh token available. Please login first.",
                                  value |-> <<>>]
                  /\ call[t].op /= "login" /\ s = <<>>
               \/ result[t] = SessionClosed /\ closed

\* one task has been refused a refresh with the ValueError, another has had
\* the resource call of its request() answered with an error status
C10_Witness ==
  /\ \E t \in Tasks :
       /\ call[t].op = "refresh_token" /\ result[t].cls = "ValueError"
       /\ result[t].status = None
  /\ \E t \in Tasks :
       /\ call[t].op = "request" /\ pc[t] = "idle" /\ Len(sent[t]) = 1
       /\ result[t].cls = "ClientResponseError" /\ result[t].status = <<500>>

(***************************************************************************)
(* C11                                                                     *)
(***************************************************************************)
LookupUrl == <<"https://link2.lk.nu", "auth", "auth", "user">>

IsLookupCall(h) == h.method = "GET" /\ h.url = LookupUrl

\* the URL of the structure/information fetch of the call c for the user id uid
UserDataUrl(c, uid) ==
  <<"https://link2.lk.nu", "service", "users", "user", uid,
    IF c.op = "get_structure" THEN "structure" ELSE "information",
    IF c.arg = <<TRUE>> THEN "1" ELSE "0">>

\* the HTTP calls of a sequence other than the refreshes
Resource(s) == SelectSeq(s, LAMBDA h : ~IsRefresh(h))

\* this step is task t making a call of UserClient
CalledUser(t) == Called(t, "get_structure") \/ Called(t, "get_information")

\* C11 as stated: on one UserClient the user-id lookup is issued only once, so
\* at most one call of the instance ever sends it
C11_LookupOnlyOnce ==
  Cardinality({ t \in Tasks :
                  /\ call[t].op \in { "get_structure", "get_information" }
                  /\ \E i \in 1..Len(sent[t]) : IsLookupCall(sent[t][i]) }) <= 1

\* C11 amended: a get_structure/get_information call starts with the user-id
\* lookup exactly when no user id is stored at that moment, and sends its fetch
\* only after that lookup has answered with an id, which is the id its URL
\* carries; the id is stored only from a lookup answered 200, and once one is
\* stored, one stays stored and every call made from then on goes straight to
\* the fetch, with the stored id in its URL and without a lookup
C11_LookupUntilStored ==
  /\ [][/\ \A t \in Tasks :
             /\ CalledUser(t) =>
                  IF user_id = <<>>
                  THEN call'[t].endpoint = <<"", "auth", "auth", "user">>
                  ELSE /\ <<"https://link2.lk.nu">> \o call'[t].endpoint
                            = UserDataUrl(call'[t], user_id[1])
                       /\ \A i \in 1..Len(sent'[t]) : ~IsLookupCall(sent'[t][i])
             /\ pc[t] = "lookup_exit" /\ pc'[t] \in { "refresh_wait", "res_wait" } =>
                  /\ resp[t].status = 200
                  /\ user_id' = <<resp[t].json.userId>>
                  /\ <<"https://link2.lk.nu">> \o call'[t].endpoint
                       = UserDataUrl(call'[t], resp[t].json.userId)
        /\ user_id' /= user_id =>
             \E t \in Tasks : pc[t] = "lookup_exit" /\ resp[t].status = 200
        /\ user_id /= <<>> => user_id' /= <<>>]_vars
  /\ [](\A t \in Tasks :
          call[t].op \in { "get_structure", "get_information" } =>
            LET s == Resource(sent[t])
            IN /\ Len(s) <= 2
               /\ Len(s) = 2 =>
                    /\ IsLookupCall(s[1])
                    /\ \E uid \in { "u1", "u2" } : s[2].url = UserDataUrl(call[t], uid)
               /\ Len(s) = 1 =>
                    \/ IsLookupCall(s[1])
                    \/ s[1].url = <<"https://link2.lk.nu">> \o call[t].endpoint)

\* a user id is stored, and the latest call of the UserClient has sent its
\* fetch, with that id in the URL, without a lookup
C11_Witness ==
  \E t \in Tasks :
    /\ caller = t /\ call[t].op = "get_information" /\ pc[t] = "res_wait"
    /\ user_id = <<"u1">>
    /\ Len(sent[t]) = 1
    /\ sent[t][1].url = <<"https://link2.lk.nu", "service", "users", "user", "u1",
                          "information", "0">>
    /\ \E u \in Tasks \ {t} :
         /\ call[u].op = "get_structure" /\ pc[u] = "idle"
         /\ result[u].kind = "return" /\ Len(Resource(sent[u])) = 2

(***************************************************************************)
(* C12                                                                     *)
(***************************************************************************)
\* this step is task t handing an HTTP call to the session, whichever call
HandsOver(t) ==
  \/ /\ pc'[t] \in { "login_wait", "refresh_wait", "probe_wait", "res_wait",
                     "lookup_wait" }
     /\ pc'[t] /= pc[t]
  \/ sent'[t] /= sent[t] /\ sent'[t] /= <<>>

\* C12: close() leaves the session closed, and from then on the session stays
\* closed, also through another close(), and no step of any call (login,
\* refresh_token, is_current_token_valid, request, a resource-client operation,
\* or a call that was between two HTTP calls when the session was closed) hands
\* an HTTP call to it; a call made on the closed session is over in the step
\* that makes it
C12_ClosedStaysClosed ==
  [][/\ \A t \in Tasks : Called(t, "close") => closed'
     /\ closed =>
          /\ closed'
          /\ \A t \in Tasks :
               /\ ~HandsOver(t)
               /\ pc'[t] /= pc[t] => pc'[t] = "idle"]_vars

\* on a closed session that holds a usable access token, a get_structure made
\* after the close has been refused without an HTTP call
C12_Witness ==
  \E t \in Tasks :
    /\ closed
    /\ caller = t /\ call[t].op = "get_structure" /\ pc[t] = "idle"
    /\ access_token = <<"a1">> /\ checked[t] = "usable" /\ sent[t] = <<>>
    /\ result[t].cls = "RuntimeError"

(***************************************************************************)
(* C13                                                                     *)
(***************************************************************************)
IsProbe(h) == h.method = "GET" /\ h.url = ProbeUrl

\* C13: is_current_token_valid() sends at most one HTTP call, the GET
\* auth/validate/token probe, and never a refresh; once the probe is answered
\* it returns true if the status is 200 and false for any other status, and it
\* raises for no status; without a stored access token it returns false without
\* a probe; and no step of it changes a token field
C13_ProbeIsBoolean ==
  /\ [](\A t \in Tasks :
          call[t].op = "is_current_token_valid" =>
            /\ Len(sent[t]) <= 1
            /\ \A i \in 1..Len(sent[t]) : IsProbe(sent[t][i])
            /\ pc[t] \in { "idle", "probe_wait" }
            /\ pc[t] = "idle" /\ sent[t] /= <<>> =>
                 /\ result[t].kind = "return"
                 /\ result[t].value = <<resp[t].status = 200>>
            /\ pc[t] = "idle" /\ sent[t] = <<>> =>
                 \/ result[t].kind = "return" /\ result[t].value = <<FALSE>>
                 \/ result[t].cls = "RuntimeError" /\ closed)
  /\ [][\A t \in Tasks :
          /\ call'[t].op = "is_current_token_valid"
          /\ <<pc[t], call[t]>> /= <<pc'[t], call'[t]>>
          => tokens' = tokens]_vars

\* one probe has been answered 200 and another 500: the first call has
\* returned true, the second false, and the tokens are those of the login
C13_Witness ==
  \E t \in Tasks, u \in Tasks :
    /\ call[t].op = "is_current_token_valid" /\ pc[t] = "idle"
    /\ resp[t].status = 200 /\ result[t].value = <<TRUE>>
    /\ call[u].op = "is_current_token_valid" /\ pc[u] = "idle"
    /\ resp[u].status = 500 /\ result[u].value = <<FALSE>>
    /\ access_token = <<"a1">> /\ refresh_token = <<"r1">>

(***************************************************************************)
(* C14                                                                     *)
(***************************************************************************)
ValveOps == { "set_valve_state", "open_valve", "close_valve" }

\* the URL of the valve command of the call c
ValveUrl(c) ==
  <<"https://link2.lk.nu", "control", "cubic", "secure", "SN1", "valve",
    IF \/ c.op = "open_valve"
       \/ c.op = "set_valve_state" /\ c.arg = <<TRUE>>
    THEN "open" ELSE "close">>

IsValvePost(h, c) == h.method = "POST" /\ h.url = ValveUrl(c) /\ h.json = <<>>

\* C14: set_valve_state(true) and open_valve() post to .../valve/open,
\* set_valve_state(false) and close_valve() to .../valve/close.  Each call
\* sends at most one such POST and no other resource call; it sends it in the
\* step that makes the call whenever the stored token is usable and the session
\* open, whatever the calls made before (there is no idempotency guard), and
\* else right after its refresh has been answered 200
C14_ValvePost ==
  /\ [][\A t \in Tasks :
          /\ (\E op \in ValveOps : Called(t, op))
             /\ checked'[t] = "usable" /\ ~closed =>
               /\ pc'[t] = "res_wait"
               /\ Len(sent'[t]) = 1 /\ IsValvePost(sent'[t][1], call'[t])
          /\ call[t].op \in ValveOps /\ pc[t] = "refresh_exit"
             /\ resp[t].status = 200 /\ pc'[t] /= pc[t] /\ ~closed =>
               /\ pc'[t] = "res_wait"
               /\ Len(sent'[t]) = 2 /\ IsValvePost(sent'[t][2], call'[t])]_vars
  /\ [](\A t \in Tasks :
          call[t].op \in ValveOps =>
            /\ Len(Resource(sent[t])) <= 1
            /\ \A i \in 1..Len(sent[t]) :
                 IsRefresh(sent[t][i]) \/ IsValvePost(sent[t][i], call[t]))

\* set_valve_state(true) has been called twice with a usable token: the first
\* call has returned, and each of the two has sent its own POST to
\* .../valve/open
C14_Witness ==
  \E t \in Tasks, u \in Tasks :
    /\ t /= u /\ caller = t
    /\ call[t].op = "set_valve_state" /\ call[t].arg = <<TRUE>>
    /\ call[u].op = "set_valve_state" /\ call[u].arg = <<TRUE>>
    /\ pc[u] = "idle" /\ result[u].kind = "return"
    /\ pc[t] = "res_wait"
    /\ Len(sent[u]) = 1 /\ Len(sent[t]) = 1
    /\ sent[u][1].method = "POST" /\ sent[t][1].method = "POST"
    /\ sent[u][1].url = <<"https://link2.lk.nu", "control", "cubic", "secure", "SN1",
                          "valve", "open">>
    /\ sent[t][1].url = sent[u][1].url

(***************************************************************************)
(* C15                                                                     *)
(***************************************************************************)
DeviceOps == { "get_measurement", "get_configuration" }

\* the first segments of the URL of the data fetch of the call c, up to the
\* bypass flag; the user id is any
DataUrlPrefixes(c) ==
  IF c.op \in DeviceOps
  THEN { <<"https://link2.lk.nu", "service", "cubic", "secure", "SN1",
           IF c.op = "get_measurement" THEN "measurement" ELSE "configuration">> }
  ELSE { <<"https://link2.lk.nu", "service", "users", "user", uid,
           IF c.op = "get_structure" THEN "structure" ELSE "information">> :
           uid \in { "u1", "u2" } }

\* h is the data fetch of the call c: a GET whose URL ends in 1 exactly when
\* the call's bypass is true, and in 0 otherwise
IsDataGet(h, c) ==
  /\ h.method = "GET"
  /\ \E p \in DataUrlPrefixes(c) :
       h.url = p \o << IF c.arg = <<TRUE>> THEN "1" ELSE "0" >>

\* the HTTP calls of a sequence other than the refreshes and the lookups
Fetches(s) == SelectSeq(s, LAMBDA h : ~IsRefresh(h) /\ ~IsLookupCall(h))

\* C15: the URL which get_measurement, get_configuration, get_structure and
\* get_information fetch ends in 1 when bypass is true and in 0 when it is
\* false, so that two calls of one operation that differ in bypass fetch
\* different URLs; and get_measurement/get_configuration keep nothing from one
\* call to the next: whenever the stored token is usable and the session open,
\* the call sends its own GET in the step that makes it
C15_BypassInUrl ==
  /\ [](\A t \in Tasks :
          call[t].op \in DeviceOps \cup { "get_structure", "get_information" } =>
            /\ \A i \in 1..Len(sent[t]) :
                 \/ IsRefresh(sent[t][i])
                 \/ IsLookupCall(sent[t][i])
                 \/ IsDataGet(sent[t][i], call[t])
            /\ \A u \in Tasks :
                 /\ call[u].op = call[t].op /\ call[u].arg /= call[t].arg
                 /\ Fetches(sent[t]) /= <<>> /\ Fetches(sent[u]) /= <<>>
                 => Fetches(sent[t])[1].url /= Fetches(sent[u])[1].url)
  /\ [][\A t \in Tasks :
          /\ (\E op \in DeviceOps : Called(t, op))
          /\ checked'[t] = "usable" /\ ~closed
          => /\ pc'[t] = "res_wait"
             /\ Len(sent'[t]) = 1 /\ IsDataGet(sent'[t][1], call'[t])]_vars

\* get_measurement has been called with bypass false and with bypass true, and
\* the two calls have fetched .../measurement/0 and .../measurement/1
C15_Witness ==
  \E t \in Tasks, u \in Tasks :
    /\ call[t].op = "get_measurement" /\ call[t].arg = <<FALSE>>
    /\ call[u].op = "get_measurement" /\ call[u].arg = <<TRUE>>
    /\ Len(sent[t]) = 1 /\ Len(sent[u]) = 1
    /\ sent[t][1].url = <<"https://link2.lk.nu", "service", "cubic", "secure", "SN1",
                          "measurement", "0">>
    /\ sent[u][1].url = <<"https://link2.lk.nu", "service", "cubic", "secure", "SN1",
                          "measurement", "1">>

OfOneResponse(a, r, ae, re) ==
  \/ a = <<>> /\ r = <<>> /\ ae = <<>> /\ re = <<>>
  \/ a = <<"a1">> /\ r = <<"r1">> /\ ae = <<61>> /\ re = <<90>>
  \/ a = <<"a2">> /\ r = <<"r2">> /\ ae = <<30>> /\ re = <<91>>

\* C17: in every state, so at every point where a task is suspended or makes
\* a call, the four token fields are all unset or are the four values of one
\* login/refresh response; and every step that changes one of them sets all
\* four from the response which that step receives
C17_TokensOfOneResponse ==
  /\ [] OfOneResponse(access_token, refresh_token, access_token_expire,
                      refresh_token_expire)
  /\ [][tokens' /= tokens =>
          \E t \in Tasks :
            /\ resp'[t] /= resp[t] /\ resp'[t].status = 200
            /\ StoredFrom(resp'[t].json)]_vars

\* a login has stored the first token pair and returned, and a refresh
\* answered with the second pair has replaced all four fields while another
\* call is suspended
C17_Witness ==
  \E t \in Tasks, u \in Tasks :
    /\ call[t].op = "login" /\ pc[t] = "idle" /\ result[t].kind = "return"
    /\ "accessToken" \in DOMAIN resp[t].json /\ resp[t].json.accessToken = "a1"
    /\ pc[u] = "refresh_exit" /\ resp[u].status = 200
    /\ "accessToken" \in DOMAIN resp[u].json /\ resp[u].json.accessToken = "a2"
    /\ access_token = <<"a2">> /\ refresh_token = <<"r2">>
    /\ access_token_expire = <<30>> /\ refresh_token_expire = <<91>>

(***************************************************************************)
(* C18                                                                     *)
(***************************************************************************)
\* the calls that go through AuthClient.request
ThroughRequest ==
  { "request", "get_measurement", "get_configuration", "get_valve",
    "set_valve_state", "open_valve", "close_valve", "get_structure",
    "get_information" }

NeverStored ==
  /\ access_token = <<>> /\ refresh_token = <<>>
  /\ access_token_expire = <<>> /\ refresh_token_expire = <<>>

\* the call of t has ended in the refresh inside request(): without a refresh
\* token, or with an answer other than 200
RefreshFailure(t) ==
  \/ /\ result[t].cls = "ValueError"
     /\ result[t].message = "No refresh token available. Please login first."
  \/ /\ result[t].cls = "ClientResponseError"
     /\ result[t].message = "Token refresh failed: " \o resp[t].text

\* C18: until a login has been answered 200 no token field is set, and a
\* request() or a resource-client operation made then is over at once: it
\* raises the ValueError 'No refresh token available. Please login first.' and
\* no HTTP call is sent, neither a refresh nor the resource call.  And whenever
\* the refresh inside request() fails (no refresh token, a closed session, an
\* answer other than 200), the call ends there with that failure and its
\* resource call is not sent
C18_NoResourceWithoutRefresh ==
  /\ [][/\ NeverStored /\ tokens' /= tokens =>
             \E t \in Tasks : pc[t] = "login_wait" /\ resp'[t].status = 200
        /\ \A t \in Tasks :
             /\ (\E op \in ThroughRequest : Called(t, op)) /\ NeverStored =>
                  /\ pc'[t] = "idle" /\ sent'[t] = <<>>
                  /\ result'[t].cls = "ValueError"
                  /\ result'[t].message
                       = "No refresh token available. Please login first."
                  /\ \A u \in Tasks \ {t} : sent'[u] = sent[u]
             /\ call[t].op \in ThroughRequest /\ pc[t] = "refresh_exit"
                /\ resp[t].status /= 200 /\ pc'[t] /= pc[t] =>
                  /\ pc'[t] = "idle" /\ sent'[t] = sent[t]
                  /\ result'[t].cls = "ClientResponseError"
                  /\ result'[t].status = <<resp[t].status>>
                  /\ result'[t].message = "Token refresh failed: " \o resp[t].text
             /\ call'[t].op \in ThroughRequest /\ HandsOver(t)
                /\ ~IsRefresh(sent'[t][Len(sent'[t])]) =>
                  \/ checked'[t] = "usable" /\ pc[t] \in { "idle", "lookup_exit" }
                  \/ /\ pc[t] = "refresh_exit" /\ resp[t].status = 200
                     /\ IsRefresh(sent[t][Len(sent[t])])]_vars
  /\ [](\A t \in Tasks :
          call[t].op \in ThroughRequest /\ pc[t] = "idle" /\ RefreshFailure(t) =>
            \A i \in 1..Len(sent[t]) :
              IsRefresh(sent[t][i]) \/ IsLookupCall(sent[t][i]))

\* a get_valve made before any login has been refused without an HTTP call,
\* and after a login a request() has had its refresh answered 401 and has
\* ended there, its resource call unsent
C18_Witness ==
  \E t \in Tasks, u \in Tasks :
    /\ call[t].op = "get_valve" /\ pc[t] = "idle" /\ sent[t] = <<>>
    /\ result[t].cls = "ValueError"
    /\ call[u].op = "request" /\ pc[u] = "idle" /\ checked[u] = "expired"
    /\ Len(sent[u]) = 1 /\ IsRefresh(sent[u][1])
    /\ resp[u].status = 401 /\ result[u].status = <<401>>

(***************************************************************************)
(* C19                                                                     *)
(***************************************************************************)
\* the call of t, a call of UserClient, is in (or ended in) its user-id lookup
InLookup(c) ==
  /\ c.op \in { "get_structure", "get_information" }
  /\ c.endpoint = <<"", "auth", "auth", "user">>

\* C19: a get_structure/get_information that ends in its user-id lookup ends
\* with the error which the lookup raised (that of request() for an answer
\* other than 200, that of the refresh inside it, the KeyError of get_user_id
\* for a body without userId), has sent no structure/information fetch, and
\* leaves the stored user id as it was; and a call made while no user id is
\* stored starts with the lookup, which it sends at once when the stored token
\* is usable and the session open
C19_FailedLookupStoresNothing ==
  /\ [](\A t \in Tasks :
          InLookup(call[t]) /\ pc[t] = "idle" =>
            LET s == sent[t]
            IN /\ result[t].kind = "raise"
               /\ \A i \in 1..Len(s) : IsRefresh(s[i]) \/ IsLookupCall(s[i])
               /\ s = <<>> => result[t].cls \in { "ValueError", "RuntimeError" }
               /\ s /= <<>> /\ IsLookupCall(s[Len(s)]) =>
                    IF resp[t].status = 200
                    THEN result[t].cls = "KeyError"
                    ELSE result[t] = HttpErrorOf(t, "Failed to execute request "
                                                   \o ToString(resp[t].status) \o " - ")
               /\ s /= <<>> /\ IsRefresh(s[Len(s)]) =>
                    IF resp[t].status = 200
                    THEN result[t].cls = "RuntimeError"
                    ELSE result[t] = HttpErrorOf(t, "Token refresh failed: "))
  /\ [][\A t \in Tasks :
          /\ InLookup(call'[t]) /\ pc'[t] = "idle"
             /\ <<pc[t], call[t]>> /= <<pc'[t], call'[t]>> =>
               user_id' = user_id
          /\ CalledUser(t) /\ user_id = <<>> =>
               /\ InLookup(call'[t])
               /\ checked'[t] = "usable" /\ ~closed =>
                    /\ pc'[t] = "lookup_wait"
                    /\ Len(sent'[t]) = 1 /\ IsLookupCall(sent'[t][1])]_vars

\* a get_structure has had its lookup answered 500 and has ended with that
\* error; no user id is stored, and the latest call of the UserClient has sent
\* the lookup again
C19_Witness ==
  \E t \in Tasks, u \in Tasks :
    /\ t /= u /\ user_id = <<>>
    /\ call[t].op = "get_structure" /\ pc[t] = "idle"
    /\ Len(sent[t]) = 1 /\ IsLookupCall(sent[t][1])
    /\ resp[t].status = 500 /\ result[t].status = <<500>>
    /\ caller = u /\ call[u].op = "get_structure" /\ pc[u] = "lookup_wait"
    /\ Len(sent[u]) = 1 /\ IsLookupCall(sent[u][1])

=============================================================================
